---- MODULE Spec2Model ----
(***************************************************************************)
(* RecordedVideo.update / RecordedVideo.updateSingle of KonomiTV           *)
(* (server/app/models/RecordedVideo.py): the reconciliation of the         *)
(* recorded_videos / recorded_programs / channels tables with the files    *)
(* under the configured recorded folders, one worker process per folder,   *)
(* all writing to one shared SQLite database.                              *)
(***************************************************************************)
EXTENDS Integers, Sequences, FiniteSets, TLC

\* ------------------------------------------------------------------ bounds

\* update() is invoked at most MaxRuns times in a behaviour.
MaxRuns == 2
\* The filesystem is changed at most MaxFsChanges times (between runs).
MaxFsChanges == 1

\* retry_count = 10
RetryCount == 10

\* ProcessPoolExecutor(): max_workers is the number of processors of the machine
CpuCounts == {1, 2}

\* ------------------------------------------------------------------ paths
\* A path is the sequence of its characters ("/", "a", ...); the file
\* extension and the "._" marker are kept as one token each, they only ever
\* stand at the end / at the start of a file name.

DirA  == <<"/", "a">>
DirAB == <<"/", "a", "b">>
DirAS == <<"/", "a", "/", "s">>

FileAX   == <<"/", "a", "/", "x", ".ts">>
FileASX  == <<"/", "a", "/", "s", "/", "x", ".ts">>
FileABX  == <<"/", "a", "b", "/", "x", ".ts">>
\* two files the validation of the walk rejects; they are always present
FileAMp4 == <<"/", "a", "/", "x", ".mp4">>
FileADot == <<"/", "a", "/", "._", "x", ".ts">>

Paths      == {FileAX, FileASX, FileABX}
FixedPaths == {FileAMp4, FileADot}

\* the values Config().video.recorded_folders takes
ConfigChoices ==
    { <<>>, <<DirA>>, <<DirAB>>, <<DirA, DirAB>>, <<DirA, DirAS>>, <<DirA, DirA>> }

\* one worker per position of recorded_folders
Workers == UNION {DOMAIN c : c \in ConfigChoices}

\* str.startswith
StartsWith(s, prefix) ==
    /\ Len(prefix) <= Len(s)
    /\ SubSeq(s, 1, Len(prefix)) = prefix

\* the file path lies in the directory tree rooted at dir
Under(path, dir) == StartsWith(path, dir \o <<"/">>)

\* Path.name: the tokens after the last "/"
RECURSIVE PathName(_)
PathName(path) ==
    IF \E i \in 1..Len(path) : path[i] = "/"
    THEN PathName(Tail(path))
    ELSE path

\* Path.suffix
PathSuffix(path) == path[Len(path)]

\* ------------------------------------------------------------------ files
\* The content of a file: "absent", "tiny" (below the minimum size of the
\* hash), "bad" (the analyzer returns None or raises), "v1" and "v2" (two
\* analyzable contents with different hashes; v1 carries a channel).

Contents == {"absent", "tiny", "bad", "v1", "v2"}

\* MetadataAnalyzer.calculateTSFileHash; 0 stands for the ValueError
calculateTSFileHash(content) ==
    CASE content = "v1"  -> 1
      [] content = "v2"  -> 2
      [] content = "bad" -> 3
      [] OTHER           -> 0

\* MetadataAnalyzer.analyze: TRUE when it returns a result
analyzeSucceeds(content) == content \in {"v1", "v2"}

\* the Channel of the result of analyze (0: None)
analyzeChannel(content) == IF content = "v1" THEN 1 ELSE 0

\* ------------------------------------------------------------------ database

NoVideo == [id |-> 0, pid |-> 0, path |-> <<>>, hash |-> 0]

EmptyDB == [videos |-> {}, programs |-> {}, channels |-> {}, seqV |-> 0, seqP |-> 0]

\* RecordedProgram ... .delete(): the row of that id, and by the CASCADE of
\* RecordedVideo.recorded_program the RecordedVideo rows that reference it
DeleteProgram(d, pid) ==
    [d EXCEPT !.programs = {p \in @ : p.id # pid},
              !.videos   = {v \in @ : v.pid # pid}]

\* a delete of all programs without the CASCADE to recorded_videos
DeleteAllProgramsNoCascade(d) == [d EXCEPT !.programs = {}]

\* RecordedProgram.all().delete()
DeleteAllPrograms(d) == [d EXCEPT !.programs = {}, !.videos = {}]

\* channel.save(): an insert unless the row exists
SaveChannel(d, ch) == [d EXCEPT !.channels = @ \cup {ch}]

\* recorded_program.save(): an insert with a fresh id
SaveProgram(d, ch) ==
    [d EXCEPT !.programs = @ \cup {[id |-> d.seqP + 1, ch |-> ch]},
              !.seqP = @ + 1]

\* recorded_video.save(): an insert with a fresh id
SaveVideo(d, pid, path, hash) ==
    [d EXCEPT !.videos = @ \cup {[id |-> d.seqV + 1, pid |-> pid, path |-> path, hash |-> hash]},
              !.seqV = @ + 1]

\* RecordedVideo.filter(file_path=path)
VideosAt(d, path) == {v \in d.videos : v.path = path}

\* ------------------------------------------------------------------ state

VARIABLES
    fs,               \* the content of every file of Paths
    recorded_folders, \* Config().video.recorded_folders of the current run
    db,               \* the committed rows of the database
    lock,             \* the worker that holds the write lock of the database, or 0
    upc,              \* update(): "idle" (not running), "gather" (awaiting the workers) or
                      \*   "raised" (not running: the last call ended with an exception)
    max_workers,      \* the number of worker processes of the ProcessPoolExecutor of the
                      \*   running update(), 0 when there is no executor
    runs,             \* number of completed calls of update()
    fsChanges,        \* number of changes of the filesystem so far
    fsChanged,        \* the filesystem changed since the start of the previous run
    quiet,            \* this run repeats the previous one (same folders, same files),
                      \*   in which every worker committed
    dbAtStart,        \* db when the current run started
    abandoned,        \* the folders whose worker gave up after ten failed attempts in
                      \*   the previous run
    pc,               \* per worker: "Off", "Idle" (submitted to the executor), "Walking",
                      \*   "Committing", "Done", "Aborted" (ended inside the try block) or
                      \*   "Raised" (an exception left updateSingleForMultiProcess)
    wi,               \* per worker: index of the next file of the walk
    existing_files,   \* per worker: the list existing_files
    save_tasks,       \* per worker: the list save_tasks (coroutines of save)
    analyzed,         \* per worker: the paths MetadataAnalyzer.analyze was called for
    retry_count,      \* per worker: retry_count
    txpos,            \* per worker: position in the current attempt: the i-th task is awaited
                      \*   next, or with i = Len(save_tasks)+1 the deletion is next (0: no attempt)
    tx,               \* the database as the open write transaction of the lock holder sees it
    log,              \* per worker: the last message of the commit phase
    connection        \* per worker: the 'default' connection of its process: "inherited" (the
                      \*   handle of the parent), "discarded" (dropped, none initialised),
                      \*   "open" (initialised by the worker) or "closed"

vars == <<fs, recorded_folders, db, lock, upc, max_workers, runs, fsChanges, fsChanged, quiet,
          dbAtStart, abandoned, pc, wi, existing_files, save_tasks, analyzed, retry_count, txpos, tx, log,
          connection>>

wvars == <<pc, wi, existing_files, save_tasks, analyzed, retry_count, txpos, log, connection>>
gvars == <<fs, recorded_folders, upc, max_workers, runs, fsChanges, fsChanged, quiet, dbAtStart,
           abandoned>>

\* the workers update() launched in the current run
Launched == DOMAIN recorded_folders

\* the directory of a worker
directory(w) == recorded_folders[w]

\* no call of update() is in progress
NotRunning == upc \in {"idle", "raised"}

\* the workers whose process is executing updateSingleForMultiProcess
Running == {u \in Launched : pc[u] \in {"Walking", "Committing"}}

\* another process holds the write lock of the database: a statement of
\* worker w that needs the database fails with OperationalError
LockedOut(w) == lock \notin {0, w}

\* a sibling is reading the database in its walk: the commit of worker w, which
\* needs the database for itself, can fail with OperationalError
ReaderAround(w) == \E u \in Launched : u # w /\ pc[u] = "Walking"

\* ------------------------------------------------------------------ the walk

\* os.walk(directory, followlinks=False): the files of the tree, top down
WalkOrder == <<FileAX, FileAMp4, FileADot, FileASX, FileABX>>

Present(path) == path \in FixedPaths \/ fs[path] # "absent"

os_walk(dir) == SelectSeq(WalkOrder, LAMBDA path : Under(path, dir) /\ Present(path))

\* the validation of a file name: not a "._" file, and a TS file
Validated(path) ==
    /\ ~ StartsWith(PathName(path), <<"._">>)
    /\ PathSuffix(path) \in {".ts", ".m2t", ".m2ts", ".mts"}

\* the files of the walk that pass the validation, in walk order
Candidates(dir) == SelectSeq(os_walk(dir), Validated)

\* a walk without the except ValueError clause
TooSmallIgnored(file_hash) == FALSE

\* except ValueError: the file is too small for calculateTSFileHash, it is skipped
TooSmall(file_hash) == file_hash = 0

\* a test that forgets the changed files
NeedsAnalysisIfNew(cur, file_hash) == cur = NoVideo

\* current_recorded_video is None or current_recorded_video.file_hash != file_hash
NeedsAnalysis(cur, file_hash) == cur = NoVideo \/ cur.hash # file_hash

\* a coroutine save(current_recorded_video, recorded_video, recorded_program, channel);
\* awaited: it has been awaited (to its end or to an exception) and cannot be awaited again
SaveTask(cur, path, file_hash, channel) ==
    [cur |-> cur, path |-> path, hash |-> file_hash, channel |-> channel, awaited |-> FALSE]

\* ------------------------------------------------------------------ save()

\* a save() that persists the child row first
PersistOrderVideoFirst(task) ==
    IF task.channel # 0 THEN <<"video", "program", "channel">> ELSE <<"video", "program">>

\* the tables the three save() statements at the end of save() write to, in
\* the order of the statements
PersistOrder(task) ==
    IF task.channel # 0 THEN <<"channel", "program", "video">> ELSE <<"program", "video">>

\* one of these statements. st is the database of the transaction (d) and the
\* two attributes the statements pass on: recorded_program.channel_id and
\* recorded_video.recorded_program_id (0: not assigned)
Persist(st, task, table) ==
    CASE table = "channel" ->
           [st EXCEPT !.d = SaveChannel(@, task.channel), !.channel_id = task.channel]
      [] table = "program" ->
           [st EXCEPT !.d = SaveProgram(@, st.channel_id),
                      !.recorded_program_id = st.d.seqP + 1]
      [] table = "video" ->
           [st EXCEPT !.d = SaveVideo(@, st.recorded_program_id, task.path, task.hash)]

\* the statements of order, one after the other: st and the states that follow it
RECURSIVE PersistTrace(_, _, _)
PersistTrace(st, task, order) ==
    IF order = <<>>
    THEN <<st>>
    ELSE <<st>> \o PersistTrace(Persist(st, task, Head(order)), task, Tail(order))

\* the states save() goes through on the database d of the open transaction:
\* after the delete of the program of current_recorded_video, and after each
\* of the statements of PersistOrder
SaveStates(d, task) ==
    LET d1 == IF task.cur # NoVideo THEN DeleteProgram(d, task.cur.pid) ELSE d
    IN  PersistTrace([d |-> d1, channel_id |-> 0, recorded_program_id |-> 0],
                     task, PersistOrder(task))

\* the body of save(), on the database d of the open transaction
save(d, task) == SaveStates(d, task)[Len(SaveStates(d, task))].d

\* ------------------------------------------------------------------ the deletion

\* a skip that forgets the test on directory: any configured folder protects the row
SkippedAsForeignAnyFolder(path, dir, folders) ==
    \E i \in DOMAIN folders : StartsWith(path, folders[i])

\* the row is skipped: its path does not start with directory and starts with
\* one of Config().video.recorded_folders
SkippedAsForeign(path, dir, folders) ==
    /\ ~ StartsWith(path, dir)
    /\ \E i \in DOMAIN folders : StartsWith(path, folders[i])

\* the loop over RecordedVideo.all(): the programs of the rows that are neither
\* skipped nor in existing_files are deleted
RECURSIVE DeletePrograms(_, _)
DeletePrograms(d, pids) ==
    IF pids = {} THEN d
    ELSE LET pid == CHOOSE x \in pids : TRUE
         IN  DeletePrograms(DeleteProgram(d, pid), pids \ {pid})

StaleDelete(d, dir, existing, folders) ==
    DeletePrograms(d, {v.pid : v \in {r \in d.videos :
                         /\ ~ SkippedAsForeign(r.path, dir, folders)
                         /\ \A i \in DOMAIN existing : existing[i] # r.path}})

\* a rollback that keeps what the transaction had written
RollbackKeeps(committed, working) == working

\* the rollback of a transaction left by an exception
Rollback(committed, working) == committed

\* the database a statement of worker w runs on: its open write transaction, or
\* the committed rows when it has not written yet
Base(w) == IF lock = w THEN tx ELSE db

\* ------------------------------------------------------------------ Init

InitFs == [Paths -> {"absent", "v1"}]

Init ==
    /\ fs \in InitFs
    /\ recorded_folders = <<>>
    /\ db = EmptyDB
    /\ lock = 0
    /\ upc = "idle"
    /\ max_workers = 0
    /\ runs = 0
    /\ fsChanges = 0
    /\ fsChanged = FALSE
    /\ quiet = FALSE
    /\ dbAtStart = EmptyDB
    /\ abandoned = {}
    /\ pc = [w \in Workers |-> "Off"]
    /\ wi = [w \in Workers |-> 1]
    /\ existing_files = [w \in Workers |-> <<>>]
    /\ save_tasks = [w \in Workers |-> <<>>]
    /\ analyzed = [w \in Workers |-> {}]
    /\ retry_count = [w \in Workers |-> RetryCount]
    /\ txpos = [w \in Workers |-> 0]
    /\ tx = EmptyDB
    /\ log = [w \in Workers |-> "none"]
    /\ connection = [w \in Workers |-> "inherited"]

\* ------------------------------------------------------------------ environment

\* a recording is added, removed or rewritten while update() is not running
FsChange ==
    /\ NotRunning
    /\ runs >= 1
    /\ fsChanges < MaxFsChanges
    /\ \E path \in Paths : \E content \in Contents \ {fs[path]} :
           fs' = [fs EXCEPT ![path] = content]
    /\ fsChanges' = fsChanges + 1
    /\ fsChanged' = TRUE
    /\ UNCHANGED <<recorded_folders, db, lock, upc, max_workers, runs, quiet, dbAtStart,
                   abandoned, tx>>
    /\ UNCHANGED wvars

\* ------------------------------------------------------------------ update()

\* update() up to the gather: one updateSingleForMultiProcess per folder
UpdateStart ==
    /\ NotRunning
    /\ runs < MaxRuns
    /\ \E folders \in ConfigChoices :
          /\ recorded_folders' = folders
          /\ quiet' = /\ runs >= 1
                       /\ ~ fsChanged
                       /\ folders = recorded_folders
                       /\ \A w \in Launched : pc[w] = "Done"
          /\ pc' = [w \in Workers |-> IF w \in DOMAIN folders THEN "Idle" ELSE "Off"]
    /\ upc' = "gather"
    /\ max_workers' \in CpuCounts
    /\ fsChanged' = FALSE
    /\ dbAtStart' = db
    /\ abandoned' = {directory(w) : w \in {u \in Launched : pc[u] = "Aborted" /\ log[u] = "failed"}}
    /\ wi' = [w \in Workers |-> 1]
    /\ existing_files' = [w \in Workers |-> <<>>]
    /\ save_tasks' = [w \in Workers |-> <<>>]
    /\ analyzed' = [w \in Workers |-> {}]
    /\ retry_count' = [w \in Workers |-> RetryCount]
    /\ txpos' = [w \in Workers |-> 0]
    /\ log' = [w \in Workers |-> "none"]
    /\ connection' = [w \in Workers |-> "inherited"]
    /\ UNCHANGED <<fs, db, lock, runs, fsChanges, tx>>

\* the state of a worker whose process has ended
Terminal == {"Done", "Aborted", "Raised"}

\* the end of update(): the with block of the executor is left when every
\* worker has ended. When a worker raised, gather raises and update() ends with
\* that exception; otherwise, with no folder configured, every RecordedProgram
\* is deleted, and update() returns
UpdateReturn ==
    /\ upc = "gather"
    /\ \A w \in Launched : pc[w] \in Terminal
    /\ IF \E w \in Launched : pc[w] = "Raised"
       THEN /\ upc' = "raised"
            /\ db' = db
       ELSE /\ upc' = "idle"
            /\ db' = IF Len(recorded_folders) = 0 THEN DeleteAllPrograms(db) ELSE db
    /\ max_workers' = 0
    /\ runs' = runs + 1
    /\ UNCHANGED <<fs, recorded_folders, lock, fsChanges, fsChanged, quiet, dbAtStart,
                   abandoned, tx>>
    /\ UNCHANGED wvars

\* ------------------------------------------------------------------ updateSingle()

\* a pool that runs one work item at a time whatever its size
SlotFreeSequential(running, size) == running = {}

\* a process of the pool is free to take the next work item
SlotFree(running, size) == Cardinality(running) < size

\* a process of the pool takes the work item of worker w (the items are taken
\* in the order of recorded_folders): Config() / LoadConfig(), then
\* connections.discard and Tortoise.init, all of them before the try block.
\* Either the walk begins with the connection Tortoise.init set up, or one of
\* them raises (LoadConfig before the inherited handle is discarded,
\* Tortoise.init after it) and the exception leaves updateSingle, asyncio.run
\* and updateSingleForMultiProcess
StartWorker(w) ==
    /\ pc[w] = "Idle"
    /\ \A u \in Launched : u < w => pc[u] # "Idle"
    /\ SlotFree(Running, max_workers)
    /\ \/ /\ pc' = [pc EXCEPT ![w] = "Walking"]
          /\ connection' = [connection EXCEPT ![w] = "open"]
       \/ /\ pc' = [pc EXCEPT ![w] = "Raised"]
          /\ \/ UNCHANGED connection
             \/ connection' = [connection EXCEPT ![w] = "discarded"]
    /\ UNCHANGED <<wi, existing_files, save_tasks, analyzed, retry_count, txpos, log>>
    /\ UNCHANGED <<db, lock, tx>>
    /\ UNCHANGED gvars

\* a finally clause that closes the connection only after a successful commit
close_connectionsOnSuccess(conn, state) == IF state = "Done" THEN "closed" ELSE conn

\* finally: await Tortoise.close_connections(), whatever way the try block was left
close_connections(conn, state) == "closed"

\* a walk that awaits save() right away instead of queueing its coroutine
QueueSaveRunsNow(d, task) == save(d, task)

\* save_tasks.append(save(...)): the call of the async function only creates the
\* coroutine, its body does not run and the database stays as it is
QueueSave(d, task) == d

\* one iteration of the walk, for the next file that passes the validation
WalkFile(w) ==
    /\ pc[w] = "Walking"
    /\ wi[w] <= Len(Candidates(directory(w)))
    /\ LET file_path == Candidates(directory(w))[wi[w]]
           file_hash == calculateTSFileHash(fs[file_path])
           rows      == VideosAt(db, file_path)
           cur       == IF rows = {} THEN NoVideo ELSE CHOOSE v \in rows : TRUE
       IN  /\ existing_files' = [existing_files EXCEPT ![w] = Append(@, file_path)]
           /\ wi' = [wi EXCEPT ![w] = @ + 1]
           /\ IF TooSmall(file_hash)
              THEN \* Logging.warning('File size is too small. ignored.'); continue
                   UNCHANGED <<pc, save_tasks, analyzed, log, connection>>
              ELSE IF Cardinality(rows) > 1
              THEN \* get_or_none raises MultipleObjectsReturned: except Exception
                   /\ pc' = [pc EXCEPT ![w] = "Aborted"]
                   /\ log' = [log EXCEPT ![w] = "traceback"]
                   /\ connection' = [connection EXCEPT ![w] = close_connections(@, "Aborted")]
                   /\ UNCHANGED <<save_tasks, analyzed>>
              ELSE IF NeedsAnalysis(cur, file_hash)
              THEN /\ analyzed' = [analyzed EXCEPT ![w] = @ \cup {file_path}]
                   /\ save_tasks' =
                        IF analyzeSucceeds(fs[file_path])
                        THEN [save_tasks EXCEPT ![w] =
                                Append(@, SaveTask(cur, file_path, file_hash,
                                                   analyzeChannel(fs[file_path])))]
                        ELSE save_tasks
                   /\ UNCHANGED <<pc, log, connection>>
              ELSE UNCHANGED <<pc, save_tasks, analyzed, log, connection>>
           /\ db' = IF /\ ~ TooSmall(file_hash)
                       /\ Cardinality(rows) <= 1
                       /\ NeedsAnalysis(cur, file_hash)
                       /\ analyzeSucceeds(fs[file_path])
                    THEN QueueSave(db, SaveTask(cur, file_path, file_hash,
                                                analyzeChannel(fs[file_path])))
                    ELSE db
    /\ UNCHANGED <<retry_count, txpos>>
    /\ UNCHANGED <<lock, tx>>
    /\ UNCHANGED gvars

\* the walk is over: retry_count = 10 and the retry loop is entered
WalkDone(w) ==
    /\ pc[w] = "Walking"
    /\ wi[w] > Len(Candidates(directory(w)))
    /\ pc' = [pc EXCEPT ![w] = "Committing"]
    /\ retry_count' = [retry_count EXCEPT ![w] = RetryCount]
    /\ txpos' = [txpos EXCEPT ![w] = 1]
    /\ UNCHANGED <<wi, existing_files, save_tasks, analyzed, log, connection>>
    /\ UNCHANGED <<db, lock, tx>>
    /\ UNCHANGED gvars

\* the worker process ends (finally: Tortoise.close_connections()); the
\* locals of the retry loop are gone
Exit(w, state, message) ==
    /\ pc' = [pc EXCEPT ![w] = state]
    /\ log' = [log EXCEPT ![w] = message]
    /\ connection' = [connection EXCEPT ![w] = close_connections(@, state)]
    /\ retry_count' = [retry_count EXCEPT ![w] = RetryCount]
    /\ txpos' = [txpos EXCEPT ![w] = 0]

\* an unexpected exception in an iteration of the walk, raised by
\* RecordedVideo.get_or_none while a sibling holds the write lock (the file is
\* in existing_files and its hash is taken): except Exception logs the
\* traceback and the worker ends
WalkFails(w) ==
    /\ pc[w] = "Walking"
    /\ LockedOut(w)
    /\ wi[w] <= Len(Candidates(directory(w)))
    /\ ~ TooSmall(calculateTSFileHash(fs[Candidates(directory(w))[wi[w]]]))
    /\ existing_files' = [existing_files EXCEPT
                            ![w] = Append(@, Candidates(directory(w))[wi[w]])]
    /\ Exit(w, "Aborted", "traceback")
    /\ UNCHANGED <<wi, save_tasks, analyzed>>
    /\ UNCHANGED <<db, lock, tx>>
    /\ UNCHANGED gvars

\* a transaction that is rolled back but keeps its write lock
LeaveTransactionKeepsLock(w) ==
    /\ db' = Rollback(db, Base(w))
    /\ UNCHANGED <<lock, tx>>

\* the exception leaves the async with block: the open transaction is rolled
\* back and its write lock released
LeaveTransaction(w) ==
    /\ db' = Rollback(db, Base(w))
    /\ lock' = IF lock = w THEN 0 ELSE lock
    /\ tx' = IF lock = w THEN EmptyDB ELSE tx

\* except exceptions.OperationalError: retry_count -= 1, the sleep, and the
\* loop goes on while retry_count > 0; at 0 'Failed to save to database' is logged
RetryOrGiveUp(w) ==
    IF retry_count[w] - 1 > 0
    THEN /\ retry_count' = [retry_count EXCEPT ![w] = @ - 1]
         /\ txpos' = [txpos EXCEPT ![w] = 1]
         /\ UNCHANGED <<pc, log, connection>>
    ELSE Exit(w, "Aborted", "failed")

\* await task, for a coroutine that has not been awaited: save() runs in the
\* transaction, which takes the write lock with its first write
TxSave(w) ==
    /\ pc[w] = "Committing"
    /\ txpos[w] \in 1..Len(save_tasks[w])
    /\ ~ save_tasks[w][txpos[w]].awaited
    /\ lock \in {0, w}
    /\ tx' = save(Base(w), save_tasks[w][txpos[w]])
    /\ lock' = w
    /\ save_tasks' = [save_tasks EXCEPT ![w][txpos[w]].awaited = TRUE]
    /\ txpos' = [txpos EXCEPT ![w] = @ + 1]
    /\ UNCHANGED <<pc, wi, existing_files, analyzed, retry_count, log, connection>>
    /\ UNCHANGED db
    /\ UNCHANGED gvars

\* an await that returns at once for a coroutine that was awaited in an earlier
\* attempt, without running its body again
TxSaveReusedSkips(w) ==
    /\ pc[w] = "Committing"
    /\ txpos[w] \in 1..Len(save_tasks[w])
    /\ save_tasks[w][txpos[w]].awaited
    /\ txpos' = [txpos EXCEPT ![w] = @ + 1]
    /\ UNCHANGED <<pc, wi, existing_files, save_tasks, analyzed, retry_count, log, connection>>
    /\ UNCHANGED <<db, lock, tx>>
    /\ UNCHANGED gvars

\* await task, for a coroutine that was awaited in an earlier attempt:
\* RuntimeError (cannot reuse already awaited coroutine), caught by
\* except Exception; the transaction is rolled back
TxSaveReused(w) ==
    /\ pc[w] = "Committing"
    /\ txpos[w] \in 1..Len(save_tasks[w])
    /\ save_tasks[w][txpos[w]].awaited
    /\ LeaveTransaction(w)
    /\ Exit(w, "Aborted", "traceback")
    /\ UNCHANGED <<wi, existing_files, save_tasks, analyzed>>
    /\ UNCHANGED gvars

\* a deletion that does not wait for the end of the loop over save_tasks
DeletionReadyAnytime(tasks, pos) == TRUE

\* the loop 'for task in save_tasks: await task' has ended: the statement that
\* follows it, the deletion, is next
DeletionReady(tasks, pos) == pos = Len(tasks) + 1

\* the deletion of the rows of vanished files, and the commit at the end of
\* the async with block
TxDeleteCommit(w) ==
    /\ pc[w] = "Committing"
    /\ DeletionReady(save_tasks[w], txpos[w])
    /\ lock \in {0, w}
    /\ db' = StaleDelete(Base(w), directory(w), existing_files[w], recorded_folders)
    /\ lock' = 0
    /\ tx' = EmptyDB
    /\ Exit(w, "Done", IF retry_count[w] < RetryCount THEN "retry succeeded" ELSE "none")
    /\ UNCHANGED <<wi, existing_files, save_tasks, analyzed>>
    /\ UNCHANGED gvars

\* exceptions.OperationalError raised by the entry of the transaction (BEGIN),
\* before any coroutine of this attempt is awaited, while a sibling holds the
\* write lock
TxBeginLocked(w) ==
    /\ pc[w] = "Committing"
    /\ txpos[w] = 1
    /\ LockedOut(w)
    /\ RetryOrGiveUp(w)
    /\ UNCHANGED <<wi, existing_files, save_tasks, analyzed>>
    /\ UNCHANGED <<db, lock, tx>>
    /\ UNCHANGED gvars

\* exceptions.OperationalError (the database is locked) raised by a statement
\* of the awaited save() or of the deletion while a sibling holds the write
\* lock, or by the commit while a sibling reads: the transaction is rolled
\* back; the coroutine that raised has been awaited
TxLocked(w) ==
    /\ pc[w] = "Committing"
    /\ \/ LockedOut(w)
       \/ txpos[w] = Len(save_tasks[w]) + 1 /\ ReaderAround(w)
    /\ txpos[w] \in 1..Len(save_tasks[w]) => ~ save_tasks[w][txpos[w]].awaited
    /\ LeaveTransaction(w)
    /\ save_tasks' = IF txpos[w] \in 1..Len(save_tasks[w])
                     THEN [save_tasks EXCEPT ![w][txpos[w]].awaited = TRUE]
                     ELSE save_tasks
    /\ RetryOrGiveUp(w)
    /\ UNCHANGED <<wi, existing_files, analyzed>>
    /\ UNCHANGED gvars

Worker(w) ==
    \/ StartWorker(w)
    \/ WalkFile(w)
    \/ WalkFails(w)
    \/ WalkDone(w)
    \/ TxBeginLocked(w)
    \/ TxSave(w)
    \/ TxSaveReused(w)
    \/ TxDeleteCommit(w)
    \/ TxLocked(w)

Next ==
    \/ FsChange
    \/ UpdateStart
    \/ UpdateReturn
    \/ \E w \in Workers : Worker(w)

Spec == Init /\ [][Next]_vars

\* the first call of update() and its workers
FirstRun ==
    \/ runs = 0 /\ UpdateStart
    \/ UpdateReturn
    \/ \E w \in Workers : Worker(w)

\* the first call of update(); every worker is a process of its own, which
\* runs until it ends
SpecFair == Init /\ [][FirstRun]_vars /\ \A w \in Workers : WF_vars(Worker(w))

\* ------------------------------------------------------------------ vocabulary of the properties

\* the paths of existing_files of a worker (the seen set of its walk)
Seen(w) == {existing_files[w][i] : i \in DOMAIN existing_files[w]}

\* the paths a worker has queued a save for
Queued(w) == {save_tasks[w][i].path : i \in DOMAIN save_tasks[w]}

\* update() has returned and the files are still those of that run
AfterRun == upc = "idle" /\ runs >= 1 /\ ~ fsChanged

\* every commit attempt of the worker failed with OperationalError
Exhausted(w) == pc[w] = "Aborted" /\ log[w] = "failed"

\* a step of worker w in its commit phase
CommitPhaseStep(w) ==
    /\ pc[w] = "Committing"
    /\ <<pc[w], retry_count[w], txpos[w]>>' # <<pc[w], retry_count[w], txpos[w]>>

\* ------------------------------------------------------------------ C1

\* C1: cross-directory isolation. The deletion of the worker of folder A never
\* deletes a row whose path lies under another configured folder B.
C1_CrossDirectoryIsolation ==
    [][\A w \in Workers :
          TxDeleteCommit(w) =>
            \A i \in Launched :
              recorded_folders[i] # directory(w) =>
                \A v \in Base(w).videos :
                  Under(v.path, recorded_folders[i]) => v \in db'.videos]_vars

\* ------------------------------------------------------------------ C2

\* C2: retry exhaustion is atomic. No step of a worker's commit phase other
\* than its successful commit changes the committed rows or leaves the write
\* lock held; a worker whose ten attempts all failed has logged 'Failed to save
\* to database', and while no sibling has committed the rows are those the run
\* started with.
C2_RetryExhaustionAtomic ==
    /\ [](\A w \in Launched :
            Exhausted(w) =>
              /\ lock # w
              /\ (\A u \in Launched : pc[u] # "Done") => db = dbAtStart)
    /\ [][\A w \in Workers :
            (CommitPhaseStep(w) /\ pc'[w] # "Done") =>
              /\ db' = db
              /\ (pc'[w] = "Aborted" => lock' # w)
              /\ (retry_count[w] = 1 /\ pc'[w] = "Aborted" /\ log'[w] # "traceback"
                    => log'[w] = "failed")]_vars

\* a worker gave up after ten failed attempts, the last of which had already
\* applied a queued save in its transaction
C2_Witness ==
    \E w \in Launched :
      /\ Exhausted(w)
      /\ \E i \in DOMAIN save_tasks[w] : save_tasks[w][i].awaited

\* ------------------------------------------------------------------ C3

\* C3: whole-transaction retry. Whenever a worker is in its commit phase, every
\* queued save from its position on can still be executed, so that an attempt
\* that meets no contention runs the whole batch and ends Done.
C3_WholeTransactionRetry ==
    \A w \in Launched :
      pc[w] = "Committing" =>
        \A i \in DOMAIN save_tasks[w] :
          i >= txpos[w] => ~ save_tasks[w][i].awaited

\* ------------------------------------------------------------------ C4

\* C4: path uniqueness. No two committed RecordedVideo rows have the same
\* file_path.
C4_PathUniqueness ==
    \A v1 \in db.videos : \A v2 \in db.videos :
      v1.path = v2.path => v1 = v2

\* ------------------------------------------------------------------ C5

\* C5 as stated: a file that is below the minimum size at the walk is not
\* analyzed, and after the run the catalog holds no row for its path.
C5_SizeSkipNoRow ==
    AfterRun =>
      \A w \in Launched : \A path \in Seen(w) :
        fs[path] = "tiny" =>
          /\ path \notin analyzed[w]
          /\ VideosAt(db, path) = {}

\* C5 as amended: a file that is below the minimum size at the walk of a worker
\* is not analyzed by that worker, the worker queues no save for it and the run
\* inserts no row for its path; the commit of that worker leaves the rows of
\* the path as they are (the path is in its existing_files).
C5_SizeSkip ==
    /\ [](~ fsChanged =>
            \A w \in Launched : \A path \in Seen(w) :
              fs[path] = "tiny" =>
                /\ path \notin analyzed[w]
                /\ path \notin Queued(w)
                /\ VideosAt(db, path) \subseteq VideosAt(dbAtStart, path))
    /\ [][\A w \in Workers :
            TxDeleteCommit(w) =>
              \A path \in Seen(w) :
                fs[path] = "tiny" => VideosAt(db', path) = VideosAt(db, path)]_vars

\* a worker has committed after a walk that met a file below the minimum size
\* whose path had a row when the run started
C5_Witness ==
    \E w \in Launched :
      /\ pc[w] = "Done"
      /\ ~ fsChanged
      /\ \E path \in Seen(w) :
            /\ fs[path] = "tiny"
            /\ VideosAt(dbAtStart, path) # {}
            /\ VideosAt(db, path) = VideosAt(dbAtStart, path)

\* ------------------------------------------------------------------ C6

\* C6: extraction failure leaves the prior entry untouched. When the analyzer
\* returned None or raised for a path of a worker's walk, the worker has queued
\* no save for the path, and once the worker has committed every RecordedVideo
\* row the path had when the run started is still there, with its program.
C6_ExtractionFailureKeepsEntry ==
    \A w \in Launched :
      (pc[w] = "Done" /\ ~ fsChanged) =>
        \A path \in analyzed[w] :
          ~ analyzeSucceeds(fs[path]) =>
            /\ path \notin Queued(w)
            /\ \A v \in VideosAt(dbAtStart, path) :
                  /\ v \in db.videos
                  /\ \E p \in db.programs : p.id = v.pid

\* ------------------------------------------------------------------ C7

\* C7: change is replace. The commit of a worker that queued a save for a path
\* whose row had another hash leaves no row with the identity of the old
\* RecordedVideo or of its RecordedProgram, and exactly one RecordedVideo row
\* for the path.
C7_ChangeIsReplace ==
    [][\A w \in Workers :
          TxDeleteCommit(w) =>
            \A i \in DOMAIN save_tasks[w] :
              save_tasks[w][i].cur # NoVideo =>
                /\ \A v \in db'.videos :
                      v.id # save_tasks[w][i].cur.id /\ v.pid # save_tasks[w][i].cur.pid
                /\ \A p \in db'.programs : p.id # save_tasks[w][i].cur.pid
                /\ Cardinality(VideosAt(db', save_tasks[w][i].path)) = 1]_vars

\* ------------------------------------------------------------------ C8

\* C8: delete. Once the worker of a folder has committed, the catalog holds no
\* RecordedVideo row whose path lies under the folder and was not in the
\* worker's existing_files, and no RecordedProgram without its RecordedVideo;
\* and no step ever removes a Channel row.
C8_Delete ==
    /\ [](\A w \in Launched :
            pc[w] = "Done" =>
              /\ \A v \in db.videos :
                    Under(v.path, directory(w)) => v.path \in Seen(w)
              /\ \A p \in db.programs : \E v \in db.videos : v.pid = p.id)
    /\ [][db.channels \subseteq db'.channels]_vars

\* a worker has committed the deletion of the row of a vanished file of its
\* folder while the channel of that row is still referenced by a remaining program
C8_Witness ==
    \E w \in Launched :
      /\ pc[w] = "Done"
      /\ \E v \in dbAtStart.videos :
            /\ Under(v.path, directory(w))
            /\ v.path \notin Seen(w)
            /\ v \notin db.videos
            /\ \E p \in dbAtStart.programs :
                  /\ p.id = v.pid
                  /\ p.ch # 0
                  /\ p.ch \in db.channels
                  /\ \E q \in db.programs : q.ch = p.ch

\* ------------------------------------------------------------------ C9

\* C9: empty configuration. A run with no folder launches no worker and leaves
\* no RecordedProgram and no RecordedVideo row when it returns; the return of a
\* run with folders changes no row.
C9_EmptyConfiguration ==
    /\ []((runs >= 1 \/ upc = "gather") /\ recorded_folders = <<>> =>
            /\ \A w \in Workers : pc[w] = "Off"
            /\ upc = "idle" => (db.programs = {} /\ db.videos = {}))
    /\ [][(upc = "gather" /\ upc' = "idle" /\ recorded_folders # <<>>) => db' = db]_vars

\* a run with no folder has returned, and the catalog had rows when it started
C9_Witness ==
    /\ upc = "idle"
    /\ runs >= 1
    /\ recorded_folders = <<>>
    /\ dbAtStart.videos # {}
    /\ dbAtStart.programs # {}
    /\ db.videos = {}

\* ------------------------------------------------------------------ C10

\* C10: idempotence. In a run that repeats the previous run (same folders, no
\* change of the files), every worker of which had committed, no worker queues
\* a save and the committed rows stay those the run started with.
C10_Idempotence ==
    quiet =>
      /\ \A w \in Launched : save_tasks[w] = <<>>
      /\ db = dbAtStart

\* ------------------------------------------------------------------ C11

\* every worker of the run has committed, at its first attempt
AllCommitted == \A w \in Launched : pc[w] = "Done" /\ log[w] = "none"

\* C11: add. When update() has returned from a run in which every worker
\* committed at its first attempt, every file under a configured folder that
\* passes the validation, has a hash, is analyzable and had no row when the run
\* started has exactly one RecordedVideo row, with the hash of the file and with
\* exactly one RecordedProgram.
C11_Add ==
    (AfterRun /\ AllCommitted) =>
      \A w \in Launched : \A path \in Paths :
        ( /\ Under(path, directory(w))
          /\ Validated(path)
          /\ analyzeSucceeds(fs[path])
          /\ VideosAt(dbAtStart, path) = {} ) =>
            /\ Cardinality(VideosAt(db, path)) = 1
            /\ \A v \in VideosAt(db, path) :
                  /\ v.hash = calculateTSFileHash(fs[path])
                  /\ Cardinality({p \in db.programs : p.id = v.pid}) = 1

\* ------------------------------------------------------------------ C12

\* C12: failure containment. A worker that ended otherwise than by its commit
\* has logged its failure (the traceback, or 'Failed to save to database'), and
\* no call of update() ends with an exception of a worker.
C12_FailureContainment ==
    /\ upc # "raised"
    /\ \A w \in Launched :
          pc[w] \in Terminal \ {"Done"} => log[w] \in {"traceback", "failed"}

\* ------------------------------------------------------------------ C13

\* worker w is next in the queue of the executor
NextInQueue(w) ==
    /\ pc[w] = "Idle"
    /\ \A u \in Launched : u < w => pc[u] # "Idle"

\* one worker per configured folder, and update() returns only when every
\* launched worker is Done or Aborted
OnePerFolderAndJoin ==
    /\ [](\A w \in Workers : pc[w] # "Off" <=> w \in Launched)
    /\ [][(upc = "gather" /\ upc' = "idle") =>
            \A w \in Launched : pc[w] \in {"Done", "Aborted"}]_vars

\* C13 as stated: fan-out and join. update() launches exactly one worker per
\* configured folder, the worker that is next in the queue can always start,
\* whatever the siblings that are still running, and update() returns only
\* when every launched worker is Done or Aborted.
C13_FanOutJoinUnbounded ==
    /\ OnePerFolderAndJoin
    /\ [](\A w \in Launched : NextInQueue(w) => ENABLED StartWorker(w))

\* C13 as amended: the worker that is next in the queue can start whenever
\* fewer workers are running than the executor has processes.
C13_FanOutJoin ==
    /\ OnePerFolderAndJoin
    /\ [](\A w \in Launched :
            (NextInQueue(w) /\ Cardinality(Running) < max_workers)
               => ENABLED StartWorker(w))

\* the second worker has started while the first was still in its walk, and
\* both are running
C13_Witness ==
    /\ Cardinality(Launched) = 2
    /\ \A w \in Launched : pc[w] \in {"Walking", "Committing"}
    /\ \E w \in Launched : pc[w] = "Walking" /\ wi[w] = 1

\* ------------------------------------------------------------------ C14

\* C14: convergence after an abandoned run. The step by which a worker gives
\* up after ten failed attempts changes no committed row; and when the next
\* run, in which every worker committed at its first attempt, has returned, a
\* folder whose worker had given up has exactly one RecordedVideo row, with
\* the current hash, for each of its valid analyzable files, and no row for a
\* file that is not there.
C14_ConvergenceAfterAbandon ==
    /\ [][\A w \in Workers :
            (pc[w] = "Committing" /\ Exhausted(w)') => db' = db]_vars
    /\ []((AfterRun /\ AllCommitted) =>
            \A w \in Launched :
              directory(w) \in abandoned =>
                /\ \A path \in Paths :
                      ( /\ Under(path, directory(w))
                        /\ Validated(path)
                        /\ analyzeSucceeds(fs[path]) ) =>
                          /\ Cardinality(VideosAt(db, path)) = 1
                          /\ \A v \in VideosAt(db, path) :
                                v.hash = calculateTSFileHash(fs[path])
                /\ \A v \in db.videos :
                      Under(v.path, directory(w)) => Present(v.path))

\* ------------------------------------------------------------------ C15

\* the transitions of the state machine of the spec
StrictEdges ==
    { <<"Idle", "Walking">>, <<"Walking", "Committing">>,
      <<"Committing", "Done">>, <<"Committing", "Aborted">> }

\* those and the two other ways a worker ends: an exception caught in the walk,
\* and an exception raised before the try block
CodeEdges == StrictEdges \cup { <<"Walking", "Aborted">>, <<"Idle", "Raised">> }

\* a step during a run changes the state of a worker along the given edges only
MovesAlong(edges) ==
    (upc = "gather" /\ upc' = "gather") =>
       \A w \in Workers : pc'[w] # pc[w] => <<pc[w], pc'[w]>> \in edges

\* retry_count stays within 0..10, and a lock error of a worker either takes
\* one from it and lets the worker retry, or was the last of the ten
RetryCounter ==
    /\ [](\A w \in Workers : retry_count[w] \in 0..RetryCount)
    /\ [][\A w \in Workers :
            (TxLocked(w) \/ TxBeginLocked(w)) =>
              \/ /\ pc'[w] = "Committing"
                 /\ retry_count'[w] = retry_count[w] - 1
                 /\ retry_count'[w] > 0
              \/ /\ pc'[w] = "Aborted"
                 /\ retry_count[w] = 1]_vars

\* C15: worker state machine and termination. Every worker moves only along Idle -> Walking -> Committing
\* -> {Done | Aborted}, a retry staying in Committing; retry_count stays within
\* 0..10 and decreases by one on each lock error; and every launched worker
\* eventually is Done or Aborted.
C15_StateMachineStrict ==
    /\ [][MovesAlong(StrictEdges)]_vars
    /\ RetryCounter
    /\ \A w \in Workers : (pc[w] = "Idle") ~> (pc[w] \in {"Done", "Aborted"})

\* the state machine of the code: a worker also ends Aborted straight from its
\* walk (an exception caught by except Exception) and ends from Idle with the
\* exception raised when the configuration or the connection fails before the
\* try block; every launched worker eventually ends in one of these ways.
CodeStateMachine ==
    /\ [][MovesAlong(CodeEdges)]_vars
    /\ RetryCounter
    /\ \A w \in Workers : (pc[w] = "Idle") ~> (pc[w] \in Terminal)

\* ------------------------------------------------------------------ C16

\* the position of a path in the walk of worker w
WalkIndex(w, path) ==
    CHOOSE i \in 1..Len(Candidates(directory(w))) : Candidates(directory(w))[i] = path

\* the rows the open transaction of the lock holder has inserted for a task
InsertedFor(task) ==
    {v \in tx.videos \ db.videos : v.path = task.path /\ v.hash = task.hash}

\* C16: commit ordering. The queue of a worker is in walk order; in an attempt
\* the saves are applied one at a time in queue order (the transaction holds
\* the row of exactly the tasks before the current position, their ids in
\* queue order, and a save removes no row but those of the program it
\* replaces); the deletion runs only when every queued save of the attempt has
\* been applied, and its commit publishes the rows of all of them.
C16_CommitOrdering ==
    /\ [](upc = "gather" =>
            \A w \in Launched : \A i, j \in DOMAIN save_tasks[w] :
              i < j => WalkIndex(w, save_tasks[w][i].path) < WalkIndex(w, save_tasks[w][j].path))
    /\ [](\A w \in Launched :
            (pc[w] = "Committing" /\ lock = w) =>
              /\ \A i \in DOMAIN save_tasks[w] :
                    i < txpos[w] <=> InsertedFor(save_tasks[w][i]) # {}
              /\ \A i, j \in DOMAIN save_tasks[w] :
                    (i < j /\ j < txpos[w]) =>
                      \A v1 \in InsertedFor(save_tasks[w][i]) :
                        \A v2 \in InsertedFor(save_tasks[w][j]) : v1.id < v2.id)
    /\ [][\A w \in Workers :
            TxSave(w) =>
              /\ txpos'[w] = txpos[w] + 1
              /\ \A v \in Base(w).videos \ tx'.videos :
                    v.pid = save_tasks[w][txpos[w]].cur.pid]_vars
    /\ [][\A w \in Workers :
            TxDeleteCommit(w) =>
              /\ txpos[w] = Len(save_tasks[w]) + 1
              /\ \A i \in DOMAIN save_tasks[w] :
                    \E v \in db'.videos \ db.videos :
                      v.path = save_tasks[w][i].path /\ v.hash = save_tasks[w][i].hash]_vars

\* a worker has committed two queued saves and, after them, the deletion of a
\* row that was there when the run started
C16_Witness ==
    \E w \in Launched :
      /\ pc[w] = "Done"
      /\ Len(save_tasks[w]) = 2
      /\ \E v \in dbAtStart.videos : v \notin db.videos /\ v.path \notin Queued(w)

\* ------------------------------------------------------------------ C17

\* a step of worker w before its commit phase
WalkPhaseStep(w) == StartWorker(w) \/ WalkFile(w) \/ WalkFails(w) \/ WalkDone(w)

\* C17: deferred writes. No step of a worker before its commit phase changes
\* the committed rows, takes the write lock or writes in a transaction; the
\* queue of a worker holds at most one save per path, each for a path that was
\* analyzed as New or Changed; and the committed rows change only by the
\* commit of a worker whose walk has ended, or by the return of update().
C17_DeferredWrites ==
    /\ [][\A w \in Workers :
            WalkPhaseStep(w) => (db' = db /\ lock' = lock /\ tx' = tx)]_vars
    /\ [](\A w \in Launched :
            /\ \A i, j \in DOMAIN save_tasks[w] :
                  i # j => save_tasks[w][i].path # save_tasks[w][j].path
            /\ \A i \in DOMAIN save_tasks[w] :
                  /\ save_tasks[w][i].path \in analyzed[w]
                  /\ NeedsAnalysis(save_tasks[w][i].cur, save_tasks[w][i].hash))
    /\ [][db' # db =>
            \/ upc = "gather" /\ upc' # "gather"
            \/ \E w \in Launched :
                  /\ pc[w] = "Committing"
                  /\ pc'[w] = "Done"
                  /\ wi[w] > Len(Candidates(directory(w)))]_vars

\* a worker in its walk has queued a save for a file the catalog has another
\* hash of, and the committed rows are still those the run started with
C17_Witness ==
    \E w \in Launched :
      /\ pc[w] = "Walking"
      /\ \E i \in DOMAIN save_tasks[w] : save_tasks[w][i].cur # NoVideo
      /\ db = dbAtStart

\* ------------------------------------------------------------------ C18

\* the path lies under a configured folder other than the one of worker w
UnderSibling(w, path) ==
    \E i \in Launched :
      recorded_folders[i] # directory(w) /\ Under(path, recorded_folders[i])

\* C18: orphan and sibling rows. The deletion of the worker of folder D keeps a
\* row whose path is not under D if and only if the path lies under another
\* configured folder; a row under no configured folder is deleted.
C18_OrphanAndSiblingRows ==
    [][\A w \in Workers :
          TxDeleteCommit(w) =>
            \A v \in Base(w).videos :
              ~ Under(v.path, directory(w)) =>
                (v \in db'.videos <=> UnderSibling(w, v.path))]_vars

\* ------------------------------------------------------------------ C19

\* the classification of a path with hash file_hash against the committed rows
IsNew(path, file_hash) == file_hash # 0 /\ VideosAt(db, path) = {}

IsChanged(path, file_hash) ==
    /\ file_hash # 0
    /\ \E v \in db.videos : VideosAt(db, path) = {v} /\ v.hash # file_hash

IsUnchanged(path, file_hash) ==
    /\ file_hash # 0
    /\ \E v \in db.videos : VideosAt(db, path) = {v} /\ v.hash = file_hash

C20_ExtractionOutsideTransaction ==
    /\ [](\A w \in Workers : lock = w => pc[w] = "Committing")
    /\ [][(upc = "gather" /\ upc' = "gather") =>
            \A w \in Workers :
              analyzed'[w] # analyzed[w] =>
                /\ pc[w] = "Walking"
                /\ lock # w
                /\ txpos[w] = 0]_vars

\* a worker holds its open write transaction after a walk in which it called
\* the analyzer
C20_Witness ==
    \E w \in Launched :
      /\ pc[w] = "Committing"
      /\ lock = w
      /\ analyzed[w] # {}

\* ------------------------------------------------------------------ C21

\* every RecordedVideo row references one RecordedProgram row that exists, and
\* every RecordedProgram row with a channel a Channel row that exists
ForeignKeysHold(d) ==
    /\ \A v \in d.videos : Cardinality({p \in d.programs : p.id = v.pid}) = 1
    /\ \A p \in d.programs : p.ch # 0 => p.ch \in d.channels

\* no RecordedProgram row is referenced by two RecordedVideo rows
OneToOne(d) ==
    \A v1 \in d.videos : \A v2 \in d.videos : v1.pid = v2.pid => v1 = v2

\* C21: ownership and foreign-key order. Every committed state has each
\* RecordedVideo row reference exactly one existing RecordedProgram row, and no
\* RecordedProgram row referenced by two RecordedVideo rows. An awaited save()
\* leaves each row it writes with its parent row already there after every one
\* of its statements, and ends with one new RecordedVideo row that references
\* one new RecordedProgram row carrying the channel of the task, whose Channel
\* row exists. No step that removes a RecordedProgram row from the committed
\* rows keeps a RecordedVideo row that references it.
C21_OwnershipAndOrder ==
    /\ [](ForeignKeysHold(db) /\ OneToOne(db))
    /\ [][\A w \in Workers :
            TxSave(w) =>
              LET task   == save_tasks[w][txpos[w]]
                  states == SaveStates(Base(w), task)
                  newV   == tx'.videos \ Base(w).videos
                  newP   == tx'.programs \ Base(w).programs
              IN  /\ \A i \in DOMAIN states : ForeignKeysHold(states[i].d)
                  /\ ForeignKeysHold(tx') /\ OneToOne(tx')
                  /\ Cardinality(newV) = 1
                  /\ Cardinality(newP) = 1
                  /\ \A v \in newV : \A p \in newP :
                        /\ v.pid = p.id
                        /\ v.path = task.path
                        /\ p.ch = task.channel
                        /\ task.channel # 0 => task.channel \in tx'.channels]_vars
    /\ [][\A p \in db.programs :
            p \notin db'.programs => \A v \in db'.videos : v.pid # p.id]_vars

\* the committed rows hold a recording with its program and the channel of that
\* program, after the program of another recording was deleted with its row
C21_Witness ==
    /\ db.seqP > Cardinality(db.programs)
    /\ db.seqV > Cardinality(db.videos)
    /\ \E v \in db.videos : \E p \in db.programs :
          v.pid = p.id /\ p.ch # 0 /\ p.ch \in db.channels

\* ------------------------------------------------------------------ C22

\* a step of worker w that reads or writes the catalog
CatalogAccess(w) ==
    \/ WalkFile(w) /\ ~ TooSmall(calculateTSFileHash(fs[Candidates(directory(w))[wi[w]]]))
    \/ WalkFails(w)
    \/ TxBeginLocked(w)
    \/ TxSave(w)
    \/ TxSaveReused(w)
    \/ TxDeleteCommit(w)
    \/ TxLocked(w)

\* C22: connection lifecycle. A worker accesses the catalog only over the
\* connection it initialised itself after dropping the inherited handle; that
\* connection is opened once, from the inherited handle, when the worker
\* starts; every step that ends a worker inside the try block (commit, retry
\* exhaustion, an exception caught by except Exception in the walk or in the
\* commit) closes it in that same step; and no worker that has ended, in
\* whatever way, has an open connection.
C22_ConnectionLifecycle ==
    /\ [](\A w \in Workers :
            /\ pc[w] \in {"Walking", "Committing"} => connection[w] = "open"
            /\ pc[w] \in {"Done", "Aborted"} => connection[w] = "closed"
            /\ pc[w] \in Terminal => connection[w] # "open")
    /\ [][\A w \in Workers :
            /\ CatalogAccess(w) => connection[w] = "open"
            /\ (connection[w] # "open" /\ connection'[w] = "open") =>
                  connection[w] = "inherited" /\ StartWorker(w)
            /\ (pc[w] \notin Terminal /\ pc'[w] \in {"Done", "Aborted"}) =>
                  connection[w] = "open" /\ connection'[w] = "closed"]_vars

\* both workers of a run have ended with their connections closed, one after
\* its commit and one after ten failed attempts
C22_Witness ==
    \E w \in Launched : \E u \in Launched :
      /\ Exhausted(w) /\ connection[w] = "closed"
      /\ pc[u] = "Done" /\ connection[u] = "closed"

\* ------------------------------------------------------------------ C23

\* the committed RecordedVideo rows a step has inserted
Inserted == db'.videos \ db.videos

\* C23: exactly-once application of the queued saves. The committed rows
\* change only with the commit of a worker (or the delete at the end of
\* update()), and a worker commits at most once in a run. The commit of a
\* worker is the end of an attempt in which every coroutine of save_tasks was
\* awaited, and it inserts exactly one row per coroutine, with the path and
\* the hash of that coroutine: none is applied twice and none is skipped.
C23_ExactlyOnce ==
    /\ [][db' # db => (UpdateReturn \/ \E w \in Workers : TxDeleteCommit(w))]_vars
    /\ [][\A w \in Workers : pc[w] = "Done" => ~ TxDeleteCommit(w)]_vars
    /\ [][\A w \in Workers :
            TxDeleteCommit(w) =>
              /\ Cardinality(Inserted) = Len(save_tasks[w])
              /\ db'.seqV = db.seqV + Len(save_tasks[w])
              /\ \A i \in DOMAIN save_tasks[w] :
                    /\ save_tasks[w][i].awaited
                    /\ Cardinality({v \in Inserted :
                                      /\ v.path = save_tasks[w][i].path
                                      /\ v.hash = save_tasks[w][i].hash}) = 1]_vars

\* a worker with two queued saves has committed them in a retry, after an
\* attempt that failed with OperationalError, and both rows are committed
C23_Witness ==
    \E w \in Launched :
      /\ pc[w] = "Done"
      /\ log[w] = "retry succeeded"
      /\ Len(save_tasks[w]) = 2
      /\ \A i \in DOMAIN save_tasks[w] :
            Cardinality({v \in db.videos : v.path = save_tasks[w][i].path}) = 1

====
